---- MODULE Spec2Model ----
(***************************************************************************)
(* The App class of portfolio-three (src/unnamed/part_000): the object     *)
(* registry (this.objects), the scene graph it feeds (this.scene), the     *)
(* size getter and the requestAnimationFrame loop of #renderScene.         *)
(*                                                                         *)
(* src/src/js/app.js is an earlier, smaller variant of the same class: its *)
(* find is identical, its add takes one object and does not flatten, and   *)
(* its loop rotates the torus only.  The model follows part_000, the       *)
(* variant with findAll, cube and mars.                                    *)
(*                                                                         *)
(* Units.  A rotation is counted in steps of 0.01 rad (the only increment  *)
(* the code uses); a camera coordinate is counted in units of 0.0001, so   *)
(* that top * -0.0002 is top * -2 and top * -0.01 is top * -100.           *)
(*                                                                         *)
(* The three.js library is an external collaborator.  Object3D.add is      *)
(* modelled by what the library does (a child that already has a parent is *)
(* removed from it before it is appended); OrbitControls.update is called  *)
(* with no pointer input pending and leaves the camera where it is.        *)
(***************************************************************************)
EXTENDS Integers, Sequences, FiniteSets

VARIABLES
    objects,       \* this.objects: the registry, a sequence of {name, mesh}
    children,      \* this.scene.children: the meshes attached to the scene
    rotation,      \* mesh.rotation of every mesh, in steps of 0.01
    cameraPos,     \* this.camera.position, in units of 0.0001
    cameraAspect,  \* this.camera.aspect, a fraction <<num, den>>
    rendererSize,  \* the size given to renderer.setSize
    innerWidth,    \* window.innerWidth
    innerHeight,   \* window.innerHeight
    bodyTop,       \* document.body.getBoundingClientRect().top
    pending,       \* frame callbacks requested and not yet run
    frames,        \* invocations of animate so far
    calls,         \* the collaborator calls of the latest animate, in order
    last           \* the latest operation: its name, argument and result

vars == <<objects, children, rotation, cameraPos, cameraAspect, rendererSize,
          innerWidth, innerHeight, bodyTop, pending, frames, calls, last>>

----------------------------------------------------------------------------
(* Bounds of the model *)

\* add is called while its renderables fit a registry of this many entries
MaxObjects == 3

\* animate is invoked at most this many times (the constructor's call included)
MaxFrames == 3

----------------------------------------------------------------------------
(* Values *)

\* the value of a lookup that found nothing, and of a missing name
Undefined == "undefined"

\* meshes made by the factories, by the light constructor and by addHelpers
FactoryMeshes == {"A", "B", "C", "L"}
HelperMeshes == {"axes", "grid", "plh"}
Meshes == FactoryMeshes \cup HelperMeshes

Renderable(n, m) == [name |-> n, mesh |-> m]

\* the renderables the callers hand to add: two tori with different meshes,
\* a cube that shares its mesh with the second torus, mars and the light
Renderables ==
    { Renderable("torus", "A"), Renderable("torus", "B"),
      Renderable("cube", "B"), Renderable("mars", "C"),
      Renderable("point-light", "L") }

\* the names find and findAll are asked for
LookupNames == {"torus", "cube", "star"}

\* viewport dimensions and scroll offsets the browser reports
Widths == {1, 2}
Heights == {1, 2}
ScrollTops == {0, -100}

----------------------------------------------------------------------------
(* The registry: add, find, findAll *)

\* what Array.prototype.find yields when no element satisfies the predicate
NoEntry == Renderable(Undefined, Undefined)

\* a scan that keeps the latest match instead of the earliest
RECURSIVE ArrayFindLast(_, _)
ArrayFindLast(arr, name) ==
    IF arr = <<>> THEN NoEntry
    ELSE IF arr[Len(arr)].name = name THEN arr[Len(arr)]
    ELSE ArrayFindLast(SubSeq(arr, 1, Len(arr) - 1), name)

\* Array.prototype.find with the predicate (o) => o.name == name
RECURSIVE ArrayFind(_, _)
ArrayFind(arr, name) ==
    IF arr = <<>> THEN NoEntry
    ELSE IF Head(arr).name = name THEN Head(arr)
    ELSE ArrayFind(Tail(arr), name)

\* find(name): this.objects.find((o) => o.name == name)?.mesh
find(objs, name) ==
    LET o == ArrayFind(objs, name)
    IN  IF o = NoEntry THEN Undefined ELSE o.mesh

\* a lookup that stops at the first match
findAllFirstOnly(objs, name) ==
    IF ArrayFind(objs, name) = NoEntry THEN <<>> ELSE <<ArrayFind(objs, name)>>

\* findAll(name): this.objects.filter((o) => o.name == name)
findAll(objs, name) == SelectSeq(objs, LAMBDA o : o.name = name)

\* an argument of add: a renderable, or an array of arguments
Leaf(r) == [leaf |-> TRUE, obj |-> r, items |-> <<>>]
Arr(xs) == [leaf |-> FALSE, obj |-> NoEntry, items |-> xs]

\* Array.prototype.flat(Infinity)
RECURSIVE flat(_)
flat(arr) ==
    IF arr = <<>> THEN <<>>
    ELSE LET h == Head(arr)
         IN  (IF h.leaf THEN <<h.obj>> ELSE flat(h.items)) \o flat(Tail(arr))

\* a registry that refuses a second entry of a name already registered
PushUniqueName(objs, o) ==
    IF \E i \in DOMAIN objs : objs[i].name = o.name THEN objs ELSE Append(objs, o)

\* a registry that inserts at the front (unshift)
PushFront(objs, o) == <<o>> \o objs

\* this.objects.push(o)
Push(objs, o) == Append(objs, o)

\* an attachment that appends without looking for the child's parent
SceneAddNoReparent(ch, m) == ch \o <<m>>

\* Object3D.add(object), as scene.add(o.mesh): a child that has a parent is
\* removed from it, then appended to the new parent's children
SceneAdd(ch, m) == SelectSeq(ch, LAMBDA c : c # m) \o <<m>>

\* objects.flat(Infinity).forEach((o) => { push(o); scene.add(o.mesh) })
RECURSIVE ForEachAdd(_, _)
ForEachAdd(st, batch) ==
    IF batch = <<>> THEN st
    ELSE ForEachAdd([objects  |-> Push(st.objects, Head(batch)),
                     children |-> SceneAdd(st.children, Head(batch).mesh)],
                    Tail(batch))

\* the ways the callers pass a list of renderables to add(...objects):
\* as separate arguments, as one array, as an array in an array, and as a
\* first argument followed by nested arrays (one of them empty)
Leaves(L) == [i \in 1..Len(L) |-> Leaf(L[i])]
Shapes(L) ==
    { Leaves(L),
      <<Arr(Leaves(L))>>,
      <<Arr(<<Arr(Leaves(L))>>)>>,
      IF L = <<>> THEN <<Arr(<<>>), Arr(<<Arr(<<>>)>>)>>
      ELSE <<Leaf(Head(L)), Arr(<<Arr(<<>>), Arr(Leaves(Tail(L)))>>)>> }

\* the lists of at most MaxObjects renderables drawn from R
Lists(R) == UNION { [1..k -> R] : k \in 0..MaxObjects }

\* the batches of one add call: any renderables; for the specification of
\* the loop, the three animated objects and the light; for the specifications
\* of the size getter and of the loop's progress, the scene built in two
\* calls (the torus; the cube and mars)
Batches == Lists(Renderables)
LoopBatches ==
    Lists({ Renderable("torus", "A"), Renderable("cube", "B"),
            Renderable("mars", "C"), Renderable("point-light", "L") })
SceneBatches ==
    { <<Renderable("torus", "A")>>,
      <<Renderable("cube", "B"), Renderable("mars", "C")>> }

\* the result record of an operation
NoSize == [width |-> 0, height |-> 0, aspect |-> <<0, 0>>]
Result(op, arg) ==
    [op |-> op, arg |-> arg, n |-> 0, mesh |-> Undefined, entries |-> <<>>,
     size |-> NoSize, threw |-> FALSE]

----------------------------------------------------------------------------
(* The driver: size, construction, the animation loop *)

RECURSIVE GCD(_, _)
GCD(a, b) == IF b = 0 THEN a ELSE GCD(b, a % b)

\* width / height, as a fraction in lowest terms
Ratio(w, h) == <<w \div GCD(w, h), h \div GCD(w, h)>>

\* a size whose aspect is height / width
sizeInverted(w, h) == [width |-> w, height |-> h, aspect |-> Ratio(h, w)]

\* get size(): reads window.innerWidth and window.innerHeight
size(w, h) == [width |-> w, height |-> h, aspect |-> Ratio(w, h)]

\* this.camera.position.z = 50
CameraDepth == 500000

\* rotation.x += dx * 0.01, and so on, on mesh m
Rotate(rot, m, dx, dy, dz) ==
    [rot EXCEPT ![m] = [x |-> @.x + dx, y |-> @.y + dy, z |-> @.z + dz]]

\* a torus block without its presence check
TorusUnguarded(torus) == TRUE

\* if (torus)
TorusGuard(torus) == torus # Undefined

\* a block guarded by the two objects it rotates only
CubeAndMarsGuard(torus, cube, mars) == cube # Undefined /\ mars # Undefined

\* if (torus && cube && mars)
AllGuard(torus, cube, mars) ==
    torus # Undefined /\ cube # Undefined /\ mars # Undefined

\* the camera position derived from the scroll offset
ScrollCamera(top) == [x |-> top * (-2), y |-> top * (-2), z |-> top * (-100)]

\* an end of animate that asks for the next frame before and after the
\* controls update
FrameTailTwice ==
    <<"requestAnimationFrame", "controls.update", "requestAnimationFrame">>

\* an end of animate that forgets to ask for the next frame
FrameTailNoRequest == <<"controls.update">>

\* the end of animate: controls.update(), then requestAnimationFrame(animate)
FrameTail == <<"controls.update", "requestAnimationFrame">>

\* the body of animate.  Reading .rotation of undefined throws a TypeError,
\* which ends the callback at once.
AnimateBody(objs, rot, cam, top) ==
    LET torus == find(objs, "torus")
        cube  == find(objs, "cube")
        mars  == find(objs, "mars")
        doTorus == TorusGuard(torus)
        doAll   == AllGuard(torus, cube, mars)
        throwT  == doTorus /\ torus = Undefined
        rot1    == IF doTorus /\ ~throwT THEN Rotate(rot, torus, 1, 1, 1) ELSE rot
        throwM  == ~throwT /\ doAll /\ mars = Undefined
        rot2    == IF doAll /\ ~throwT /\ ~throwM
                   THEN Rotate(rot1, mars, 0, 1, 0) ELSE rot1
        throwC  == ~throwT /\ ~throwM /\ doAll /\ cube = Undefined
        threw   == throwT \/ throwM \/ throwC
        rot3    == IF doAll /\ ~threw THEN Rotate(rot2, cube, 0, 1, 1) ELSE rot2
    IN  [rotation  |-> rot3,
         cameraPos |-> IF doAll /\ ~threw THEN ScrollCamera(top) ELSE cam,
         calls     |-> <<"render">>
                       \o (IF doAll /\ ~throwT
                           THEN <<"getBoundingClientRect">> ELSE <<>>)
                       \o (IF threw THEN <<>> ELSE FrameTail),
         threw     |-> threw]

\* the number of requestAnimationFrame calls in a call log
Requests(log) ==
    Cardinality({i \in DOMAIN log : log[i] = "requestAnimationFrame"})

\* new App({canvas}) in a viewport of w by h, the page scrolled to top:
\* objects = [], #createScene, #createControls, #renderScene (which calls
\* animate once, directly)
Constructed(w, h, top) ==
    LET first == AnimateBody(<<>>, [m \in Meshes |-> [x |-> 0, y |-> 0, z |-> 0]],
                             [x |-> 0, y |-> 0, z |-> CameraDepth], top)
    IN  /\ objects = <<>>
        /\ children = <<>>
        /\ rotation = first.rotation
        /\ cameraPos = first.cameraPos
        /\ cameraAspect = size(w, h).aspect
        /\ rendererSize = <<size(w, h).width, size(w, h).height>>
        /\ innerWidth = w
        /\ innerHeight = h
        /\ bodyTop = top
        /\ pending = Requests(first.calls)
        /\ frames = 1
        /\ calls = first.calls
        /\ last = [Result("new", "") EXCEPT !.threw = first.threw]

\* the page as the repository's index.html is first shown, unscrolled
Init == Constructed(2, 1, 0)

\* the same page opened in any viewport
InitSize == \E w \in Widths, h \in Heights : Constructed(w, h, 0)

----------------------------------------------------------------------------
(* Operations *)

\* the effect of add(...args) on the registry and on the scene
AddEffect(objs, ch, args) ==
    ForEachAdd([objects |-> objs, children |-> ch], flat(args))

\* add(...objects), the renderables drawn from the batches B
Add(B) ==
    \E L \in B :
        /\ Len(objects) + Len(L) <= MaxObjects
        /\ \E args \in Shapes(L) :
               LET st == AddEffect(objects, children, args)
               IN  /\ objects' = st.objects
                   /\ children' = st.children
        /\ last' = [Result("add", "") EXCEPT !.n = Len(L)]
        /\ UNCHANGED <<rotation, cameraPos, cameraAspect, rendererSize,
                       innerWidth, innerHeight, bodyTop, pending, frames, calls>>

\* addHelpers(): three helper meshes, made anew, go through add.  The
\* PointLightHelper constructor dereferences the light it is given, so the
\* call throws before add when no "point-light" is registered.
AddHelpers ==
    /\ Len(objects) <= MaxObjects
    /\ find(objects, "axes-helper") = Undefined
    /\ IF find(objects, "point-light") = Undefined
       THEN /\ last' = [Result("addHelpers", "") EXCEPT !.threw = TRUE]
            /\ UNCHANGED <<objects, children>>
       ELSE LET st == AddEffect(objects, children,
                                <<Leaf(Renderable("axes-helper", "axes")),
                                  Leaf(Renderable("grid-helper", "grid")),
                                  Leaf(Renderable("point-light-helper", "plh"))>>)
            IN  /\ objects' = st.objects
                /\ children' = st.children
                /\ last' = [Result("addHelpers", "") EXCEPT !.n = 3]
    /\ UNCHANGED <<rotation, cameraPos, cameraAspect, rendererSize,
                   innerWidth, innerHeight, bodyTop, pending, frames, calls>>

\* find(name), called from outside the loop
Find ==
    \E name \in LookupNames :
        /\ last' = [Result("find", name) EXCEPT !.mesh = find(objects, name)]
        /\ UNCHANGED <<objects, children, rotation, cameraPos, cameraAspect,
                       rendererSize, innerWidth, innerHeight, bodyTop, pending,
                       frames, calls>>

\* findAll(name)
FindAll ==
    \E name \in LookupNames :
        /\ last' = [Result("findAll", name) EXCEPT !.entries = findAll(objects, name)]
        /\ UNCHANGED <<objects, children, rotation, cameraPos, cameraAspect,
                       rendererSize, innerWidth, innerHeight, bodyTop, pending,
                       frames, calls>>

\* app.size
ReadSize ==
    /\ last' = [Result("size", "") EXCEPT !.size = size(innerWidth, innerHeight)]
    /\ UNCHANGED <<objects, children, rotation, cameraPos, cameraAspect,
                   rendererSize, innerWidth, innerHeight, bodyTop, pending,
                   frames, calls>>

\* the browser runs a requested frame callback: animate
Animate ==
    /\ pending > 0
    /\ frames < MaxFrames
    /\ LET f == AnimateBody(objects, rotation, cameraPos, bodyTop)
       IN  /\ rotation' = f.rotation
           /\ cameraPos' = f.cameraPos
           /\ calls' = f.calls
           /\ pending' = pending - 1 + Requests(f.calls)
           /\ last' = [Result("animate", "") EXCEPT !.threw = f.threw]
    /\ frames' = frames + 1
    /\ UNCHANGED <<objects, children, cameraAspect, rendererSize, innerWidth,
                   innerHeight, bodyTop>>

\* the user resizes the window (no resize listener is installed)
Resize ==
    \E w \in Widths, h \in Heights :
        /\ <<w, h>> # <<innerWidth, innerHeight>>
        /\ innerWidth' = w
        /\ innerHeight' = h
        /\ last' = Result("resize", "")
        /\ UNCHANGED <<objects, children, rotation, cameraPos, cameraAspect,
                       rendererSize, bodyTop, pending, frames, calls>>

\* the user scrolls the page (the scroll listener is commented out)
Scroll ==
    \E top \in ScrollTops :
        /\ top # bodyTop
        /\ bodyTop' = top
        /\ last' = Result("scroll", "")
        /\ UNCHANGED <<objects, children, rotation, cameraPos, cameraAspect,
                       rendererSize, innerWidth, innerHeight, pending, frames,
                       calls>>

\* the registry and the loop: every operation of App on the registry
Next ==
    \/ Add(Batches)
    \/ AddHelpers
    \/ Find
    \/ FindAll
    \/ Animate

Spec == Init /\ [][Next]_vars

\* the loop and the page it reads the scroll offset of
NextLoop ==
    \/ Add(LoopBatches)
    \/ Animate
    \/ Scroll

SpecLoop == Init /\ [][NextLoop]_vars

\* the loop over a scene built in two calls, the browser running every
\* frame callback it was asked for
NextLive ==
    \/ Add(SceneBatches)
    \/ Animate
    \/ Scroll

LiveLoop == Init /\ [][NextLive]_vars /\ WF_vars(Animate)

\* the size getter in a window that is resized
NextSize ==
    \/ Add(SceneBatches)
    \/ Animate
    \/ Resize
    \/ ReadSize

SpecSize == InitSize /\ [][NextSize]_vars

----------------------------------------------------------------------------
(* What the claims speak of, stated without the operators above *)

Range(seq) == { seq[i] : i \in DOMAIN seq }

\* the positions of the registry entries called name
Positions(objs, name) == { i \in DOMAIN objs : objs[i].name = name }

\* some registry entry is called name
Present(objs, name) == Positions(objs, name) # {}

\* the mesh of the earliest-inserted entry called name
EarliestMesh(objs, name) ==
    IF Present(objs, name)
    THEN objs[CHOOSE i \in Positions(objs, name) :
                  \A j \in Positions(objs, name) : i <= j].mesh
    ELSE Undefined

\* the position of the k-th entry called name
KthPosition(objs, name, k) ==
    CHOOSE i \in Positions(objs, name) :
        Cardinality({ j \in Positions(objs, name) : j <= i }) = k

IsPrefix(s, t) == Len(s) <= Len(t) /\ SubSeq(t, 1, Len(s)) = s

\* the step is an invocation of animate
IsFrame == frames' = frames + 1

\* the step is a call of add
IsAdd == last'.op = "add" /\ vars' # vars

----------------------------------------------------------------------------
(* C1 *)

\* C1: for every registry the add calls can build and every name, find(name)
\* is the mesh of the earliest-inserted entry of that name, and undefined
\* when no entry has the name, duplicates of the name included.
C1_FindEarliest ==
    /\ \A name \in LookupNames \cup {"missing"} :
           find(objects, name) = EarliestMesh(objects, name)
    /\ last.op = "find" => last.mesh = EarliestMesh(objects, last.arg)

\* find("torus") answered A with a later torus of mesh B in the registry
C1_Witness ==
    /\ last.op = "find" /\ last.arg = "torus" /\ last.mesh = "A"
    /\ \E i, j \in DOMAIN objects :
           /\ i < j
           /\ objects[i] = Renderable("torus", "A")
           /\ objects[j] = Renderable("torus", "B")

----------------------------------------------------------------------------
(* C2 *)

----------------------------------------------------------------------------
(* C3 *)

\* the renderables a call of add has appended
Appended == SubSeq(objects', Len(objects) + 1, Len(objects'))

\* C3, as claimed: a call of add with N renderables lengthens the registry
\* by N and the scene's children by N, whatever the batch.
C3_AsClaimed ==
    [][IsAdd => /\ Len(objects') = Len(objects) + last'.n
                /\ Len(children') = Len(children) + last'.n]_vars

\* C3, amended: a call of add with N renderables, however nested, appends
\* exactly these N to the registry; afterwards every mesh of the batch is a
\* child of the scene, and the number of children has grown by the number
\* of distinct meshes of the batch that were not attached before (by N when
\* the meshes are distinct and new).
C3_AddAppendsAndAttaches ==
    [][IsAdd =>
        /\ Len(objects') = Len(objects) + last'.n
        /\ IsPrefix(objects, objects')
        /\ \A i \in DOMAIN Appended : Appended[i] \in Renderables
        /\ \A i \in DOMAIN Appended : Appended[i].mesh \in Range(children')
        /\ Len(children') = Len(children)
               + Cardinality({ Appended[i].mesh : i \in DOMAIN Appended }
                             \ Range(children))]_vars

\* add has been given two renderables, and the scene has fewer children than
\* the registry has entries: a mesh was handed to the scene twice
C3_Witness ==
    /\ last.op = "add" /\ last.n = 2
    /\ Len(children) < Len(objects)

----------------------------------------------------------------------------
(* C4 *)

\* the registry and the scene hold the same meshes, each child once
Lockstep ==
    /\ { objects[i].mesh : i \in DOMAIN objects } = Range(children)
    /\ Cardinality(Range(children)) = Len(children)

\* C4: in every reachable state every registered renderable has its mesh
\* among the children of the scene and every child of the scene is the mesh
\* of a registered renderable, and only add (called directly or by
\* addHelpers) changes the children of the scene.
C4_RegistrySceneLockstep ==
    /\ []Lockstep
    /\ [][children' # children => last'.op \in {"add", "addHelpers"}]_vars

\* a frame has run on a scene that holds the three helpers, the light and a
\* mesh registered under two names
C4_Witness ==
    /\ last.op = "animate"
    /\ Present(objects, "point-light-helper")
    /\ \E i, j \in DOMAIN objects :
           i # j /\ objects[i].mesh = objects[j].mesh

----------------------------------------------------------------------------
(* C9 *)

\* C9: every step of the program leaves the registry a prefix of what it
\* becomes, only add (called directly or by addHelpers) lengthens it, and a
\* name that find resolves to a mesh resolves to the same mesh ever after.
C9_AppendOnly ==
    [][/\ IsPrefix(objects, objects')
       /\ objects' # objects => last'.op \in {"add", "addHelpers"}
       /\ \A name \in LookupNames \cup {"mars", "point-light"} :
              find(objects, name) # Undefined =>
                  find(objects', name) = find(objects, name)]_vars

\* a second torus, of another mesh, has been added after the first, and add
\* was the latest operation
C9_Witness ==
    /\ last.op = "add"
    /\ Len(objects) >= 2
    /\ objects[1].name = "torus"
    /\ objects[Len(objects)].name = "torus"
    /\ objects[1].mesh # objects[Len(objects)].mesh

----------------------------------------------------------------------------
(* C5 *)

\* the three animated names are all registered
AllPresent(objs) ==
    Present(objs, "torus") /\ Present(objs, "cube") /\ Present(objs, "mars")

Vec(x, y, z) == [x |-> x, y |-> y, z |-> z]
Plus(u, v) == Vec(u.x + v.x, u.y + v.y, u.z + v.z)
If(cond, v) == IF cond THEN v ELSE Vec(0, 0, 0)

\* the increments of one frame, in steps of 0.01
TorusStep == Vec(1, 1, 1)
CubeStep == Vec(0, 1, 1)
MarsStep == Vec(0, 1, 0)

\* the rotation mesh m gains in a frame when each of the three objects is
\* animated under the condition given for it
Gain(objs, m, torusIf, cubeIf, marsIf) ==
    Plus(If(torusIf /\ m = EarliestMesh(objs, "torus"), TorusStep),
         Plus(If(cubeIf /\ m = EarliestMesh(objs, "cube"), CubeStep),
              If(marsIf /\ m = EarliestMesh(objs, "mars"), MarsStep)))

\* C5, as claimed: in every frame each of torus, cube and mars that is
\* registered gains its increment, each that is not is skipped, and nothing
\* is thrown, whichever of the three are registered.
C5_AsClaimed ==
    [][IsFrame =>
        /\ ~last'.threw
        /\ \A m \in Meshes :
               rotation'[m] =
                   Plus(rotation[m],
                        Gain(objects, m, Present(objects, "torus"),
                             Present(objects, "cube"),
                             Present(objects, "mars")))]_vars

\* C5, amended: in every frame the torus gains its increment when it is
\* registered; the cube and mars gain theirs when torus, cube and mars are
\* all three registered, and are left alone otherwise; no other mesh is
\* rotated and nothing is thrown, whichever of the three are registered.
C5_RotationPerFrame ==
    /\ [](last.op \in {"new", "animate"} => ~last.threw)
    /\ [][IsFrame =>
            \A m \in Meshes :
                rotation'[m] =
                    Plus(rotation[m],
                         Gain(objects, m, Present(objects, "torus"),
                              AllPresent(objects), AllPresent(objects)))]_vars

\* two frames have run with the cube registered and the torus not: the
\* cube has not turned
C5_Witness ==
    /\ last.op = "animate" /\ ~last.threw
    /\ frames = 3
    /\ objects = <<Renderable("cube", "B"), Renderable("mars", "C")>>
    /\ rotation["B"] = Vec(0, 0, 0)

----------------------------------------------------------------------------
(* C7 *)

\* this.camera.position as #createScene leaves it
CameraAtConstruction == Vec(0, 0, 500000)

----------------------------------------------------------------------------
(* C10 *)

\* the position of a call in the log of the latest frame, 0 when absent
CallAt(name) ==
    IF \E i \in DOMAIN calls : calls[i] = name
    THEN CHOOSE i \in DOMAIN calls : calls[i] = name
    ELSE 0

\* C10: at most one frame callback is requested and not yet run at any
\* time; the constructor has run animate once; and every run of animate
\* makes one request, as its last call, after render and controls.update.
C10_OneCallbackPending ==
    /\ pending <= 1
    /\ last.op = "new" => frames = 1
    /\ Cardinality({ i \in DOMAIN calls : calls[i] = "requestAnimationFrame" }) = 1
    /\ calls[Len(calls)] = "requestAnimationFrame"
    /\ calls[1] = "render"
    /\ 1 < CallAt("controls.update")
    /\ CallAt("controls.update") < CallAt("requestAnimationFrame")

\* the third run of animate, on a registry that holds all three objects,
\* has read the scroll offset and left one callback requested
C10_Witness ==
    /\ frames = 3
    /\ pending = 1
    /\ AllPresent(objects)
    /\ calls = <<"render", "getBoundingClientRect", "controls.update",
                 "requestAnimationFrame">>

----------------------------------------------------------------------------
(* C6 *)

\* C6: the loop is started by the constructor and is never left: in every
\* reachable state a callback is requested and no frame has thrown,
\* whatever the registry holds; and, the browser running every callback it
\* was asked for, each run of animate is followed by the next (up to the
\* MaxFrames runs the model follows).
C6_LoopNeverStops ==
    /\ [](pending >= 1 /\ frames >= 1)
    /\ [](last.op \in {"new", "animate"} =>
              ~last.threw /\ calls[Len(calls)] = "requestAnimationFrame")
    /\ \A k \in 1..(MaxFrames - 1) : (frames = k) ~> (frames = k + 1)

\* the last frame the model follows has run with the torus missing, and the
\* next is requested
C6_Witness ==
    /\ frames = MaxFrames
    /\ last.op = "animate"
    /\ ~Present(objects, "torus")
    /\ Present(objects, "mars")
    /\ pending = 1

----------------------------------------------------------------------------
(* C8 *)

\* C8: app.size is read from the window at every access: it returns the
\* current innerWidth and innerHeight and an aspect equal to width / height,
\* wide and tall windows alike; the renderer size and the camera aspect are
\* those of the window at construction and no resize, add or frame changes
\* them.
C8_SizeIsLive ==
    /\ rendererSize = <<innerWidth, innerHeight>>
    /\ cameraAspect[1] * innerHeight = cameraAspect[2] * innerWidth
    /\ [](last.op = "size" =>
              /\ last.size.width = innerWidth
              /\ last.size.height = innerHeight
              /\ last.size.aspect[1] * innerHeight
                     = last.size.aspect[2] * innerWidth)
    /\ [][rendererSize' = rendererSize /\ cameraAspect' = cameraAspect]_vars

\* size has been read in a window taller than wide, resized since
\* construction, after an add and a frame
C8_Witness ==
    /\ last.op = "size"
    /\ last.size = [width |-> 1, height |-> 2, aspect |-> <<1, 2>>]
    /\ rendererSize = <<2, 2>>
    /\ cameraAspect = <<1, 1>>
    /\ frames > 1
    /\ objects # <<>>

====
